---- MODULE Spec2Model ----
(***************************************************************************)
(* A model of modis_downloader.py: get_modis_data and the functions it     *)
(* calls (get_available_dates, download_granule_list, required_files,      *)
(* download_granules), with the two thread pools of get_modis_data.        *)
(*                                                                         *)
(* A URL is the tuple of its "/"-separated parts, a file name the tuple of *)
(* its "."-separated parts, a local path the tuple <<directory, name>>.    *)
(***************************************************************************)
EXTENDS Integers, Sequences, FiniteSets, TLC

\* ------------------------------------------------------------- bounds ----
MaxThreads == 2    \* n_threads ranges over 1..MaxThreads
MaxBlocks == 2     \* a response body has at most MaxBlocks blocks
MaxRuns == 2       \* successive invocations of get_modis_data
MaxCand == 3       \* candidate lists given to required_files on its own
MaxRows == 4       \* lines of an index page from the 19th on, scanned on its own

\* ---------------------------------------------------------- constants ----
HeaderLines == 19  \* html.splitlines()[19:]

BASE_URL == "http://e4ftl01.cr.usgs.gov/MOLT/MOD13A3.006"
OutputDir == "out"

\* ------------------------------------------------------------ helpers ----
Last(s) == s[Len(s)]

Range(s) == {s[i] : i \in 1..Len(s)}

RECURSIVE Flatten(_)
\* [g for granule in the_granules for g in granule]
Flatten(ss) == IF ss = <<>> THEN <<>> ELSE Head(ss) \o Flatten(Tail(ss))

\* all the orders in which the elements of a set can be listed
Perms(S) == {s \in [1..Cardinality(S) -> S] : Range(s) = S}

\* ---------------------------------------------------------- file names ---
\* the names the archive's pages can link to
HdfA == <<"a", "hdf">>
HdfB == <<"b", "hdf">>
H5C == <<"c", "h5">>
XmlA == <<"a", "hdf", "xml">>
BrowseA == <<"BROWSE", "a", "jpg">>

\* the lexicographic order of the names, as str.sort sees them
NameOrder == <<BrowseA, HdfA, XmlA, HdfB, H5C>>

NameRank(n) == CHOOSE i \in 1..Len(NameOrder) : NameOrder[i] = n

\* fich.endswith(".hdf")
EndsWith(fname, ext) == Len(fname) > 1 /\ Last(fname) = ext

\* output_fname + ".partial"
Partial(fname) == Append(fname, "partial")

IsPartial(fname) == EndsWith(fname, "partial")

\* url.split("/")[-1]
FileName(url) == Last(url)

\* os.path.join(output_dir, fname)
Join(output_dir, fname) == <<output_dir, fname>>

\* the name not taken off the path
PathNameWhole(path) == path

\* Path(fich).name
PathName(path) == Last(path)

\* ------------------------------------------------------------ request ----
\* the arguments of get_modis_data: dates are day numbers
Request == [start_date |-> 2, end_date |-> 3, tiles |-> <<"h17v04", "h17v05">>]

\* ------------------------------------------------- get_available_dates ---
\* a line of the product's index page: whether it holds "[DIR]" and "href",
\* and the date its link names
DirRow(d) == [dir |-> TRUE, date |-> d]
TextRow == [dir |-> FALSE, date |-> 0]

\* an index page: the archive's header lines, then the rows; the last
\* header line is itself a directory row
IndexPage(rows) ==
  [i \in 1..HeaderLines |-> IF i = HeaderLines THEN DirRow(Request.start_date) ELSE TextRow]
    \o [i \in 1..Len(rows) |-> DirRow(rows[i])]

\* avail_dates.append(url + "/" + this_date)
DateUrl(url, d) == <<url, d>>

RECURSIVE ScanLines(_, _, _, _)
\* the loop over html.splitlines()[19:]
ScanLines(url, lines, start_date, end_date) ==
  IF lines = <<>> THEN <<>>
  ELSE LET line == Head(lines)
           rest == ScanLines(url, Tail(lines), start_date, end_date)
       IN IF line.dir /\ line.date >= start_date /\ line.date <= end_date
          THEN <<DateUrl(url, line.date)>> \o rest
          ELSE rest

\* the loop over html.splitlines(), header lines included
get_available_dates_all(url, html, start_date, end_date) ==
  ScanLines(url, html, start_date, end_date)

\* html.splitlines()[19:], then the loop
get_available_dates(url, html, start_date, end_date) ==
  ScanLines(url, SubSeq(html, HeaderLines + 1, Len(html)), start_date, end_date)

\* ----------------------------------------------- download_granule_list ---
\* a line of a date's page: the file its href names and the tile
\* identifiers that occur in the line
Row(fname, tiles) == [fname |-> fname, tiles |-> tiles]

RECURSIVE GrabLine(_, _, _)
\* the loop over the tiles for one line
GrabLine(url, line, tiles) ==
  IF tiles = <<>> THEN <<>>
  ELSE LET rest == GrabLine(url, line, Tail(tiles))
       IN IF /\ Head(tiles) \in line.tiles
             /\ "xml" \notin Range(line.fname)
             /\ "BROWSE" \notin Range(line.fname)
          THEN <<Append(url, line.fname)>> \o rest
          ELSE rest

RECURSIVE GrabLines(_, _, _)
\* the loop over r.text.splitlines()
GrabLines(url, lines, tiles) ==
  IF lines = <<>> THEN <<>>
  ELSE GrabLine(url, Head(lines), tiles) \o GrabLines(url, Tail(lines), tiles)

\* the except clause as it was meant: sleep, then request again
ListExceptRetries(exc) == "sleep"

\* what the except clause of the retry loop does with an exception of
\* requests.get: evaluating requests.execeptions raises AttributeError
ListExcept(exc) == "AttributeError"

\* ------------------------------------------------------ required_files ---
\* hdf_files_present
HdfFilesPresent(all_files_present) ==
  {fich \in all_files_present : EndsWith(fich, "hdf")}

\* dict(list(zip(flist, url_list))): a later pair replaces an earlier one
FileList(url_list) ==
  [k \in {FileName(url_list[i]) : i \in 1..Len(url_list)} |->
     url_list[CHOOSE i \in 1..Len(url_list) :
                /\ FileName(url_list[i]) = k
                /\ \A j \in 1..Len(url_list) : FileName(url_list[j]) = k => j <= i]]

\* the difference left out: every candidate name is kept
FilesToDownloadAll(url_list, all_files_present) ==
  {FileName(url_list[i]) : i \in 1..Len(url_list)}

\* flist.difference(hdf_files_present)
FilesToDownload(url_list, all_files_present) ==
  {FileName(url_list[i]) : i \in 1..Len(url_list)} \ HdfFilesPresent(all_files_present)

\* the candidates filtered one by one, no set of names built
required_files_each(url_list, all_files_present) ==
  {SelectSeq(url_list,
             LAMBDA u : FileName(u) \notin HdfFilesPresent(all_files_present))}

\* the lists required_files can return: list(set) has no fixed order
required_files(url_list, all_files_present) ==
  {[i \in 1..Len(o) |-> FileList(url_list)[o[i]]] :
     o \in Perms(FilesToDownload(url_list, all_files_present))}

\* ---------------------------------------------------- download_granules ---
\* a response to the GET of a granule: the status, the blocks of the body,
\* the blocks the stream delivers, and whether the stream then raises
\* (breaks) or just ends
Responses ==
  {[status |-> s, body |-> 0, avail |-> 0, breaks |-> FALSE] :
     s \in {"neterr", "bad", "nolen"}}
  \cup {[status |-> "ok", body |-> MaxBlocks, avail |-> MaxBlocks, breaks |-> FALSE]}
  \cup {[status |-> "ok", body |-> MaxBlocks, avail |-> a, breaks |-> b] :
          a \in 0..(MaxBlocks - 1), b \in BOOLEAN}

NoResponse == [status |-> "none", body |-> 0, avail |-> 0, breaks |-> FALSE]

\* the body written under the final name
WriteTargetFinal(fname) == fname

\* the file the body is written to
WriteTarget(fname) == Partial(fname)

\* the temporary name returned
DownloadReturnPartial(output_dir, fname) == Join(output_dir, Partial(fname))

\* return output_fname
DownloadReturn(output_dir, fname) == Join(output_dir, fname)

\* r.ok not looked at: the body of an error page is saved like a granule
OnResponseIgnoresStatus(resp) ==
  CASE resp.status = "neterr" -> "ConnectionError"
    [] resp.status = "nolen" -> "KeyError"
    [] OTHER -> "open"

\* what download_granules does with the response before it opens a file:
\* the exception it raises, or "open"
OnResponse(resp) ==
  CASE resp.status = "neterr" -> "ConnectionError"
    [] resp.status = "bad" -> "IOError"
    [] resp.status = "nolen" -> "KeyError"
    [] OTHER -> "open"

\* ------------------------------------------------------ get_modis_data ---
\* LOG.debug(f"First:{str(the_dates[0]):s}")
LogFirst(dates) == IF dates = <<>> THEN "IndexError" ELSE "ok"

\* gr.sort(): the URLs of one product differ in the date, then in the name
UrlLess(u, v) == u[2] < v[2] \/ (u[2] = v[2] /\ NameRank(u[3]) < NameRank(v[3]))

\* all(fich in gotten_files for fich in req_fnames)
HaveAllFiles(files, fnames) ==
  \A i \in 1..Len(fnames) : fnames[i] \in {PathName(files[j]) : j \in 1..Len(files)}

\* the failure kept inside the loop: another pass for the URLs not gotten
PassFailedRetries(urls, futs) ==
  [pc |-> "loop",
   gr |-> SelectSeq(urls, LAMBDA u : \E i \in 1..Len(urls) :
                                      urls[i] = u /\ futs[i].st # "done")]

\* where get_modis_data goes when a transfer of the pass has raised: the
\* exception leaves the while loop and the function
PassFailed(urls, futs) == [pc |-> "raised", gr |-> urls]

\* the pages a date's directory can hold
ListingPages ==
  {<<Row(HdfA, {"h17v04"}), Row(XmlA, {"h17v04"}), Row(BrowseA, {"h17v04"})>>,
   <<Row(HdfA, {"h17v04"}), Row(H5C, {"h17v04", "h17v05"}), Row(HdfB, {})>>}

\* the rows an index page can hold
IndexRows == {<<1, 4>>, <<2, 4>>, <<3, 2>>}

\* what the output directory can hold before the first run
InitialDirs == {{}, {HdfA}, {H5C}}

VARIABLES
  idx,          \* the archive: the product's index page
  pages,        \* the archive: the page of each date directory
  n_threads,    \* the argument n_threads
  window,       \* the arguments start_date and end_date
  dir,          \* the output directory: file name -> [size, run that wrote it]
  dir0,         \* the names in the output directory when the run began
  prev_list,    \* the url_list of the run before this one
  run,          \* the number of the current invocation
  pc,           \* where the main thread of get_modis_data is
  err,          \* the exception get_modis_data has raised
  scan,         \* whether get_available_dates has returned
  the_dates,
  lfut,         \* the futures of the listing pool: [st, grab, exc]
  the_granules,
  url_list,     \* gr, flattened and sorted
  gr,           \* gr_to_dload
  req_fnames,
  dfut,         \* the futures of the download pool: [st, pos, resp, ret, exc]
  dload_files,
  result,       \* the list get_modis_data has returned
  npass,        \* passes of the while loop begun in this run
  lreq,         \* the date URLs requested in this run
  reqd          \* the granule URLs requested in this run

vars == <<idx, pages, n_threads, window, dir, dir0, prev_list, run, pc, err, scan, the_dates, lfut,
          the_granules, url_list, gr, req_fnames, dfut, dload_files, result,
          npass, lreq, reqd>>

archive == <<idx, pages, n_threads, window>>
began == <<dir0, prev_list>>
listing == <<the_dates, lfut, the_granules, lreq>>
fetching == <<gr, req_fnames, dfut, dload_files, npass, reqd>>

Terminal == {"done", "raised"}

File(size) == [size |-> size, run |-> run]

LFuture(st, grab, exc) == [st |-> st, grab |-> grab, exc |-> exc]

DFuture(st, pos, resp, ret, exc) ==
  [st |-> st, pos |-> pos, resp |-> resp, ret |-> ret, exc |-> exc]

Running(futs) == {i \in 1..Len(futs) : futs[i].st \in {"running", "sleeping"}}

\* a pool that starts a thread for every work item
CanStartUnbounded(futs, i) ==
  /\ i \in 1..Len(futs)
  /\ futs[i].st = "pending"
  /\ \A j \in 1..(i - 1) : futs[j].st # "pending"

\* a worker thread takes the next work item off the queue
CanStart(futs, i) ==
  /\ i \in 1..Len(futs)
  /\ futs[i].st = "pending"
  /\ \A j \in 1..(i - 1) : futs[j].st # "pending"
  /\ Cardinality(Running(futs)) < n_threads

\* the finally clause of Executor.map: future.cancel() on the futures left
Cancel(futs) ==
  [i \in 1..Len(futs) |->
     IF futs[i].st = "pending" THEN [futs[i] EXCEPT !.st = "cancelled"] ELSE futs[i]]

\* the results not waited for
AllCollectedEarly(results, futs) == TRUE

\* the for loop over executor.map has taken the result of every work item
AllCollected(results, futs) == Len(results) = Len(futs)

InWindow(rows) ==
  {rows[i] : i \in {j \in 1..Len(rows) :
                      rows[j] >= Request.start_date /\ rows[j] <= Request.end_date}}

Init ==
  /\ \E rows \in IndexRows :
       /\ idx = IndexPage(rows)
       /\ pages \in [InWindow(rows) -> ListingPages]
  /\ n_threads \in 1..MaxThreads
  /\ window = [start_date |-> Request.start_date, end_date |-> Request.end_date]
  /\ \E present \in InitialDirs : dir = [f \in present |-> [size |-> 1, run |-> 0]]
  /\ dir0 = DOMAIN dir
  /\ prev_list = <<>>
  /\ run = 1
  /\ pc = "start"
  /\ err = "none"
  /\ scan = "pending"
  /\ the_dates = <<>>
  /\ lfut = <<>>
  /\ the_granules = <<>>
  /\ url_list = <<>>
  /\ gr = <<>>
  /\ req_fnames = <<>>
  /\ dfut = <<>>
  /\ dload_files = <<>>
  /\ result = <<>>
  /\ npass = 0
  /\ lreq = {}
  /\ reqd = {}

\* ------------------------------------------------------------ scanning ---
\* lines 222-230: requests.get(url) of the index page, r.ok, the scan
Scan ==
  /\ pc = "start"
  /\ \E status \in {"ok", "bad", "neterr"} :
       IF status = "ok"
       THEN /\ the_dates' = get_available_dates(BASE_URL, idx, window.start_date,
                                                window.end_date)
            /\ scan' = "ok"
            /\ pc' = "scanned"
            /\ err' = err
       ELSE /\ the_dates' = the_dates
            /\ scan' = "failed"
            /\ pc' = "raised"
            /\ err' = IF status = "bad" THEN "WebError" ELSE "ConnectionError"
  /\ UNCHANGED <<archive, dir, began, run, lfut, the_granules, lreq, url_list,
                 fetching, result>>

\* lines 231-239: the log of the first and last date, then executor.map
\* submits one download_granule_list per date
LogDates ==
  /\ pc = "scanned"
  /\ IF LogFirst(the_dates) = "ok"
     THEN /\ lfut' = [i \in 1..Len(the_dates) |-> LFuture("pending", <<>>, "none")]
          /\ pc' = "listing"
          /\ err' = err
     ELSE /\ lfut' = lfut
          /\ pc' = "raised"
          /\ err' = LogFirst(the_dates)
  /\ UNCHANGED <<archive, dir, began, run, scan, the_dates, the_granules, lreq,
                 url_list, fetching, result>>

\* ------------------------------------------------------------- listing ---
\* a worker of the listing pool takes download_granule_list(the_dates[i])
LStart(i) ==
  /\ pc \in {"listing", "ldrain"}
  /\ CanStart(lfut, i)
  /\ lfut' = [lfut EXCEPT ![i].st = "running"]
  /\ UNCHANGED <<archive, dir, began, run, pc, err, scan, the_dates, the_granules,
                 lreq, url_list, fetching, result>>

\* lines 115-132: one turn of the while loop, and the parse of the page.
\* A response that is not ok is an error page, which names no tile.
LRequest(i) ==
  /\ i \in 1..Len(lfut)
  /\ lfut[i].st \in {"running", "sleeping"}
  /\ IF lfut[i].st = "sleeping"
     THEN /\ lfut' = [lfut EXCEPT ![i].st = "running"]
          /\ lreq' = lreq
     ELSE /\ lreq' = lreq \cup {the_dates[i]}
          /\ \E status \in {"ok", "bad", "neterr"} :
               CASE status = "ok" ->
                      lfut' = [lfut EXCEPT ![i] =
                        LFuture("done", GrabLines(the_dates[i], pages[the_dates[i][2]],
                                                  Request.tiles), "none")]
                 [] status = "bad" ->
                      lfut' = [lfut EXCEPT ![i] = LFuture("done", <<>>, "none")]
                 [] OTHER ->
                      IF ListExcept("ConnectionError") = "sleep"
                      THEN lfut' = [lfut EXCEPT ![i].st = "sleeping"]
                      ELSE lfut' = [lfut EXCEPT ![i] =
                             LFuture("error", <<>>, ListExcept("ConnectionError"))]
  /\ UNCHANGED <<archive, dir, began, run, pc, err, scan, the_dates, the_granules,
                 url_list, fetching, result>>

\* lines 240-241: the main thread takes the next result of executor.map
LCollect ==
  /\ pc = "listing"
  /\ Len(the_granules) < Len(lfut)
  /\ LET f == lfut[Len(the_granules) + 1]
     IN \/ /\ f.st = "done"
           /\ the_granules' = Append(the_granules, f.grab)
           /\ UNCHANGED <<lfut, pc, err>>
        \/ /\ f.st = "error"
           /\ lfut' = Cancel(lfut)
           /\ pc' = "ldrain"
           /\ err' = f.exc
           /\ UNCHANGED the_granules
  /\ UNCHANGED <<archive, dir, began, run, scan, the_dates, lreq, url_list,
                 fetching, result>>

\* the with block of line 239 ends: shutdown(wait=True), then the
\* exception leaves get_modis_data
LDrained ==
  /\ pc = "ldrain"
  /\ Running(lfut) = {}
  /\ pc' = "raised"
  /\ UNCHANGED <<archive, dir, began, run, err, scan, listing, url_list, fetching,
                 result>>

\* lines 243-253: flatten, sort, required_files, and the early return
Dedup ==
  /\ pc = "listing"
  /\ AllCollected(the_granules, lfut)
  /\ url_list' = SortSeq(Flatten(the_granules), UrlLess)
  /\ gr' \in required_files(url_list', DOMAIN dir)
  /\ req_fnames' = [i \in 1..Len(gr') |-> FileName(gr'[i])]
  /\ IF Len(gr') = 0
     THEN pc' = "done" /\ result' = <<>>
     ELSE pc' = "loop" /\ result' = result
  /\ UNCHANGED <<archive, dir, began, run, err, scan, listing, dfut, dload_files,
                 npass, reqd>>

\* ------------------------------------------------------------ fetching ---
\* lines 255-272: a pass of the while loop begins; executor.map submits
\* one download_granules per URL of gr
StartPass ==
  /\ pc = "loop"
  /\ npass' = npass + 1
  /\ dload_files' = <<>>
  /\ dfut' = [i \in 1..Len(gr) |-> DFuture("pending", "request", NoResponse, <<>>, "none")]
  /\ pc' = "fetching"
  /\ UNCHANGED <<archive, dir, began, run, err, scan, listing, url_list, gr,
                 req_fnames, reqd, result>>

\* a worker of the download pool takes download_granules(gr[i])
DStart(i) ==
  /\ pc \in {"fetching", "ddrain"}
  /\ CanStart(dfut, i)
  /\ dfut' = [dfut EXCEPT ![i].st = "running"]
  /\ UNCHANGED <<archive, dir, began, run, pc, err, scan, listing, url_list, gr,
                 req_fnames, dload_files, npass, reqd, result>>

\* lines 137-143: the two requests, r.ok and the content-length header
DRequest(i) ==
  /\ i \in 1..Len(dfut)
  /\ dfut[i].st = "running"
  /\ dfut[i].pos = "request"
  /\ reqd' = reqd \cup {gr[i]}
  /\ \E resp \in Responses :
       IF OnResponse(resp) = "open"
       THEN dfut' = [dfut EXCEPT ![i].resp = resp, ![i].pos = "open"]
       ELSE dfut' = [dfut EXCEPT ![i].resp = resp, ![i].st = "error",
                                 ![i].exc = OnResponse(resp)]
  /\ UNCHANGED <<archive, dir, began, run, pc, err, scan, listing, url_list, gr,
                 req_fnames, dload_files, npass, result>>

\* lines 145-147: open(output_fname + ".partial", "wb")
DOpen(i) ==
  /\ i \in 1..Len(dfut)
  /\ dfut[i].st = "running"
  /\ dfut[i].pos = "open"
  /\ dir' = (WriteTarget(FileName(gr[i])) :> File(0)) @@ dir
  /\ dfut' = [dfut EXCEPT ![i].pos = "write"]
  /\ UNCHANGED <<archive, began, run, pc, err, scan, listing, url_list, gr,
                 req_fnames, dload_files, npass, reqd, result>>

\* lines 148-149: r.iter_content yields a block and fp.write writes it, or
\* the stream raises, or the stream ends and the with block closes the file
DWrite(i) ==
  /\ i \in 1..Len(dfut)
  /\ dfut[i].st = "running"
  /\ dfut[i].pos = "write"
  /\ LET target == WriteTarget(FileName(gr[i]))
         resp == dfut[i].resp
     IN IF dir[target].size < resp.avail
        THEN /\ dir' = [dir EXCEPT ![target].size = @ + 1]
             /\ dfut' = dfut
        ELSE /\ dir' = dir
             /\ dfut' = IF resp.breaks
                        THEN [dfut EXCEPT ![i].st = "error", ![i].exc = "StreamError"]
                        ELSE [dfut EXCEPT ![i].pos = "rename"]
  /\ UNCHANGED <<archive, began, run, pc, err, scan, listing, url_list, gr,
                 req_fnames, dload_files, npass, reqd, result>>

\* lines 151-153: os.rename(output_fname + ".partial", output_fname)
DRename(i) ==
  /\ i \in 1..Len(dfut)
  /\ dfut[i].st = "running"
  /\ dfut[i].pos = "rename"
  /\ LET fname == FileName(gr[i])
         rest == [f \in DOMAIN dir \ {Partial(fname)} |-> dir[f]]
     IN /\ Partial(fname) \in DOMAIN dir
        /\ dir' = (fname :> dir[Partial(fname)]) @@ rest
        /\ dfut' = [dfut EXCEPT ![i].st = "done",
                                ![i].ret = DownloadReturn(OutputDir, fname)]
  /\ UNCHANGED <<archive, began, run, pc, err, scan, listing, url_list, gr,
                 req_fnames, dload_files, npass, reqd, result>>

\* lines 272-273: the main thread takes the next result of executor.map
DCollect ==
  /\ pc = "fetching"
  /\ Len(dload_files) < Len(dfut)
  /\ LET f == dfut[Len(dload_files) + 1]
     IN \/ /\ f.st = "done"
           /\ dload_files' = Append(dload_files, f.ret)
           /\ UNCHANGED <<dfut, pc, err>>
        \/ /\ f.st = "error"
           /\ dfut' = Cancel(dfut)
           /\ pc' = "ddrain"
           /\ err' = f.exc
           /\ UNCHANGED dload_files
  /\ UNCHANGED <<archive, dir, began, run, scan, listing, url_list, gr, req_fnames,
                 npass, reqd, result>>

\* the with blocks of lines 261 and 271 end: shutdown(wait=True), then the
\* exception goes where PassFailed says
DDrained ==
  /\ pc = "ddrain"
  /\ Running(dfut) = {}
  /\ LET to == PassFailed(gr, dfut)
     IN /\ pc' = to.pc
        /\ gr' = to.gr
        /\ err' = IF to.pc = "raised" THEN err ELSE "none"
  /\ UNCHANGED <<archive, dir, began, run, scan, listing, url_list, req_fnames,
                 dfut, dload_files, npass, reqd, result>>

\* lines 275-283: the check of the gotten names, the return or the raise
Verify ==
  /\ pc = "fetching"
  /\ AllCollected(dload_files, dfut)
  /\ IF HaveAllFiles(dload_files, req_fnames)
     THEN pc' = "done" /\ result' = dload_files /\ err' = err
     ELSE pc' = "raised" /\ result' = result /\ err' = "Incomplete"
  /\ UNCHANGED <<archive, dir, began, run, scan, listing, url_list, fetching>>

\* ---------------------------------------------------------- a later run ---
\* get_modis_data is called again with the same arguments
Restart ==
  /\ pc = "done"
  /\ run < MaxRuns
  /\ run' = run + 1
  /\ dir0' = DOMAIN dir
  /\ prev_list' = url_list
  /\ pc' = "start"
  /\ err' = "none"
  /\ scan' = "pending"
  /\ the_dates' = <<>>
  /\ lfut' = <<>>
  /\ the_granules' = <<>>
  /\ url_list' = <<>>
  /\ gr' = <<>>
  /\ req_fnames' = <<>>
  /\ dfut' = <<>>
  /\ dload_files' = <<>>
  /\ result' = <<>>
  /\ npass' = 0
  /\ lreq' = {}
  /\ reqd' = {}
  /\ UNCHANGED <<archive, dir>>

Main ==
  \/ Scan
  \/ LogDates
  \/ LCollect
  \/ LDrained
  \/ Dedup
  \/ StartPass
  \/ DCollect
  \/ DDrained
  \/ Verify

LWorker(i) == LStart(i) \/ LRequest(i)

DWorker(i) == DStart(i) \/ DRequest(i) \/ DOpen(i) \/ DWrite(i) \/ DRename(i)

\* the names a listing can grab
ListedNames ==
  UNION {{FileName(u) : u \in Range(GrabLines(<<BASE_URL, 0>>, p, Request.tiles))} :
           p \in ListingPages}

\* the most futures a pool can hold: one per date, or one per name
MaxFutures ==
  CHOOSE n \in {Cardinality(ListedNames)} \cup {Len(rows) : rows \in IndexRows} :
    \A m \in {Cardinality(ListedNames)} \cup {Len(rows) : rows \in IndexRows} : m <= n

\* the steps of one run of get_modis_data
Step ==
  \/ Main
  \/ \E i \in 1..MaxFutures : LWorker(i)
  \/ \E i \in 1..MaxFutures : DWorker(i)

Next == Step \/ Restart

Spec == Init /\ [][Next]_vars

\* one run, in which every thread that can take a step eventually takes one
FairSpec ==
  /\ Init
  /\ [][Step]_vars
  /\ WF_vars(Main)
  /\ \A i \in 1..MaxFutures : WF_vars(LWorker(i)) /\ WF_vars(DWorker(i))

\* ------------------------------------------- required_files on its own ---
CandUrls == {<<BASE_URL, d, n>> : d \in {2, 3}, n \in {HdfA, H5C}}

InitRF ==
  /\ url_list \in UNION {[1..k -> CandUrls] : k \in 0..MaxCand}
  /\ \E present \in SUBSET {HdfA, H5C, Partial(HdfA)} :
       dir = [f \in present |-> [size |-> 1, run |-> 0]]
  /\ dir0 = DOMAIN dir
  /\ prev_list = <<>>
  /\ pc = "required_files"
  /\ idx = <<>>
  /\ pages = <<>>
  /\ n_threads = 1
  /\ window = [start_date |-> Request.start_date, end_date |-> Request.end_date]
  /\ run = 1
  /\ err = "none"
  /\ scan = "ok"
  /\ the_dates = <<>>
  /\ lfut = <<>>
  /\ the_granules = <<>>
  /\ gr = <<>>
  /\ req_fnames = <<>>
  /\ dfut = <<>>
  /\ dload_files = <<>>
  /\ result = <<>>
  /\ npass = 0
  /\ lreq = {}
  /\ reqd = {}

\* gr_to_dload = required_files(gr, output_dir)
CallRF ==
  /\ pc = "required_files"
  /\ gr' \in required_files(url_list, DOMAIN dir)
  /\ pc' = "returned"
  /\ UNCHANGED <<archive, dir, began, run, err, scan, listing, url_list, req_fnames,
                 dfut, dload_files, npass, reqd, result>>

SpecRF == InitRF /\ [][CallRF]_vars

\* ------------------------------------- get_available_dates on its own ---
\* the lines a page can hold and the dates a window can name
Dates == 1..4
Lines == {DirRow(d) : d \in Dates} \cup {TextRow}

\* a page: header lines of text, then up to MaxRows lines of any kind, so
\* that the first of them is the last of the lines that are skipped
ScanPages ==
  {[i \in 1..(HeaderLines - 1) |-> TextRow] \o rows :
     rows \in UNION {[1..k -> Lines] : k \in 0..MaxRows}}

InitScan ==
  /\ idx \in ScanPages
  /\ \E s \in Dates, e \in Dates :
       /\ s <= e
       /\ window = [start_date |-> s, end_date |-> e]
  /\ pc = "get_available_dates"
  /\ pages = <<>>
  /\ n_threads = 1
  /\ dir = <<>>
  /\ dir0 = {}
  /\ prev_list = <<>>
  /\ run = 1
  /\ err = "none"
  /\ scan = "pending"
  /\ the_dates = <<>>
  /\ lfut = <<>>
  /\ the_granules = <<>>
  /\ url_list = <<>>
  /\ gr = <<>>
  /\ req_fnames = <<>>
  /\ dfut = <<>>
  /\ dload_files = <<>>
  /\ result = <<>>
  /\ npass = 0
  /\ lreq = {}
  /\ reqd = {}

\* the_dates = get_available_dates(url, start_date, end_date), r.ok
CallScan ==
  /\ pc = "get_available_dates"
  /\ the_dates' = get_available_dates(BASE_URL, idx, window.start_date,
                                      window.end_date)
  /\ scan' = "ok"
  /\ pc' = "scanned"
  /\ UNCHANGED <<archive, dir, began, run, err, lfut, the_granules, lreq, url_list,
                 fetching, result>>

SpecScan == InitScan /\ [][CallScan]_vars

\* ============================================================== claims ===
FileNames(urls) == {FileName(urls[i]) : i \in 1..Len(urls)}

\* the local inventory: the names in the output directory with the
\* granules' extension
Inventory == {f \in DOMAIN dir : Last(f) = "hdf"}

Failed(futs) == {i \in 1..Len(futs) : futs[i].st = "error"}

\* C1: when get_modis_data has ended, by a return or by an exception, the
\* output directory holds no ".partial" file that this run created.
NoStrayPartial ==
  pc \in Terminal => \A f \in DOMAIN dir : ~(IsPartial(f) /\ dir[f].run = run)

\* C2: when the index page is fetched and no row of it lies in the window,
\* get_modis_data returns the empty list: it raises nothing and requests no
\* listing and no download.
EmptyScanIsDone ==
  (scan = "ok" /\ the_dates = <<>> /\ pc \in Terminal)
    => (pc = "done" /\ result = <<>> /\ err = "none" /\ lreq = {} /\ reqd = {})

\* C3: a run that follows a run ended in Done, with the same request and
\* output directory, and that is given the listing the run before was given,
\* requests no download and returns the empty list.
SecondRunDownloadsNothing ==
  (run > 1 /\ url_list = prev_list) => (reqd = {} /\ (pc = "done" => result = <<>>))

\* C4: required_files returns candidate URLs whose file names are exactly
\* the candidates' names that are not in the inventory, one URL for each
\* name, and the same names for every permutation of the candidates.
RequiredFilesIsSetDifference ==
  pc = "returned" =>
    /\ FileNames(gr) = FileNames(url_list) \ Inventory
    /\ Range(gr) \subseteq Range(url_list)
    /\ \A i, j \in 1..Len(gr) : FileName(gr[i]) = FileName(gr[j]) => i = j
    /\ \A p \in Perms(1..Len(url_list)) :
         \A r \in required_files([i \in 1..Len(url_list) |-> url_list[p[i]]], DOMAIN dir) :
           FileNames(r) = FileNames(gr)

\* C4 witness: candidates with a repeated name and a name of the inventory
RequiredFilesCase ==
  /\ pc = "returned"
  /\ Len(url_list) = 3
  /\ url_list[1] # url_list[2]
  /\ FileName(url_list[1]) = FileName(url_list[2])
  /\ FileName(url_list[3]) \in Inventory
  /\ Len(gr) = 1

\* C5: when the run has ended after a transfer of the pass failed, every URL
\* of the pass was requested, and each whose transfer succeeded is in the
\* output directory under its final name.
SiblingsAttempted ==
  (pc \in Terminal /\ Failed(dfut) # {}) =>
    \A i \in 1..Len(dfut) :
      /\ gr[i] \in reqd
      /\ (dfut[i].resp.status = "ok" /\ ~dfut[i].resp.breaks)
           => (FileName(gr[i]) \in DOMAIN dir /\ dir[FileName(gr[i])].run = run)

FinalNameIsComplete ==
  /\ \A f \in DOMAIN dir :
       (~IsPartial(f) /\ dir[f].run = run) =>
         \E i \in 1..Len(dfut) :
           /\ FileName(gr[i]) = f
           /\ dfut[i].st = "done"
           /\ dir[f].size = dfut[i].resp.avail
  /\ \A i \in 1..Len(dfut) :
       (dfut[i].st = "running" /\ dfut[i].pos \in {"write", "rename"}) =>
         /\ Partial(FileName(gr[i])) \in DOMAIN dir
         /\ dir[Partial(FileName(gr[i]))].size <= dfut[i].resp.avail

\* C7 witness: one worker is in the middle of its body while another file
\* of the pass is already under its final name
MidTransferCase ==
  \E i, j \in 1..Len(dfut) :
    /\ dfut[i].st = "done"
    /\ FileName(gr[i]) \in DOMAIN dir
    /\ dfut[j].st = "running"
    /\ dfut[j].pos = "write"
    /\ dir[Partial(FileName(gr[j]))].size > 0

\* C8: every run of get_modis_data ends, by a return or by an exception.
Terminates == <>(pc \in Terminal)

\* C8 witness: the archive refused the connection of a listing request and
\* the run has ended
RefusedListingCase ==
  /\ pc = "raised"
  /\ err = "AttributeError"
  /\ \E i \in 1..Len(lfut) : lfut[i].st = "error"

\* C9: the list returned in Done holds, once each, the local path of every
\* listed file name that was not in the output directory when the run
\* began, and nothing else.
DoneReturnsNewFiles ==
  pc = "done" =>
    /\ Range(result) = {Join(OutputDir, n) : n \in FileNames(url_list) \ dir0}
    /\ Len(result) = Cardinality(Range(result))

\* C10: when every transfer of the pass has succeeded, the run ends in Done:
\* the verifying step finds every requested name and nothing is raised.
AllSucceededIsDone ==
  (Len(dfut) > 0 /\ \A i \in 1..Len(dfut) : dfut[i].st = "done") =>
    /\ pc \in {"fetching", "done"}
    /\ Len(dload_files) = Len(dfut) => HaveAllFiles(dload_files, req_fnames)
    /\ pc = "done" => (err = "none" /\ result = dload_files)

\* C10 witness: a pass of two transfers, both succeeded, has ended in Done
AllSucceededCase ==
  /\ pc = "done"
  /\ Len(dfut) = 2
  /\ \A i \in 1..Len(dfut) : dfut[i].st = "done"

\* C11: a listing request that meets a connection error is retried: no
\* listing worker ends with an exception and no listing failure reaches
\* get_modis_data.
RefusedListingIsRetried ==
  /\ \A i \in 1..Len(lfut) : lfut[i].st # "error"
  /\ pc \in {"ldrain", "raised"} => \A i \in 1..Len(lfut) : lfut[i].exc = "none"

\* C12: when the fetch of the index page does not succeed, the run ends with
\* WebError and nothing follows: no listing, no download, no file written.
FailedScanIsWebError ==
  scan = "failed" =>
    /\ pc = "raised"
    /\ err = "WebError"
    /\ lreq = {} /\ reqd = {}
    /\ lfut = <<>> /\ dfut = <<>>
    /\ DOMAIN dir = dir0

\* C13: at most n_threads listing requests and at most n_threads transfers
\* are in flight.
PoolsAreBounded ==
  /\ Cardinality(Running(lfut)) <= n_threads
  /\ Cardinality(Running(dfut)) <= n_threads

\* C13 witness: every thread of the download pool is busy and a URL waits
PoolFullCase ==
  /\ Cardinality(Running(dfut)) = n_threads
  /\ \E i \in 1..Len(dfut) : dfut[i].st = "pending"

\* C14: a transfer whose response has a non-success status ends with the
\* download's IOError, and neither its ".partial" file nor its final file
\* has been created or written by this run.
BadStatusWritesNothing ==
  \A i \in 1..Len(dfut) :
    dfut[i].resp.status = "bad" =>
      /\ dfut[i].st = "error"
      /\ dfut[i].exc = "IOError"
      /\ \A f \in {FileName(gr[i]), Partial(FileName(gr[i]))} :
           f \in DOMAIN dir => dir[f].run # run

\* C14 witness: a transfer was refused for a file that is in the output
\* directory from before, while a sibling was materialized
BadStatusCase ==
  \E i, j \in 1..Len(dfut) :
    /\ dfut[i].resp.status = "bad"
    /\ FileName(gr[i]) \in DOMAIN dir
    /\ dfut[j].st = "done"

\* C15: of two candidate URLs with the same file name, required_files
\* returns the one that comes first in the candidate sequence.
FirstSeenWins ==
  pc = "returned" =>
    \A i \in 1..Len(gr) :
      LET same == {j \in 1..Len(url_list) :
                     FileName(url_list[j]) = FileName(gr[i])}
          first == CHOOSE j \in same : \A k \in same : j <= k
      IN gr[i] = url_list[first]

\* C16: a transfer whose stream delivers another number of blocks than the
\* content-length declared does not end well, and this run leaves no file
\* under its final name.
ShortBodyIsFailure ==
  \A i \in 1..Len(dfut) :
    LET resp == dfut[i].resp
        fname == FileName(gr[i])
    IN (resp.status = "ok" /\ resp.avail # resp.body) =>
         /\ dfut[i].st # "done"
         /\ fname \in DOMAIN dir => dir[fname].run # run

\* C17: the phases follow one another: once deduplication has run (the
\* loop is entered, a download future exists or a granule was requested)
\* every listing worker has finished and its result was taken, and a
\* listing worker and a download worker are never active together.
PhasesAreSequential ==
  /\ (pc \in {"loop", "fetching", "ddrain"} \/ dfut # <<>> \/ reqd # {}) =>
       /\ \A i \in 1..Len(lfut) : lfut[i].st = "done"
       /\ Len(the_granules) = Len(lfut)
  /\ ~(Running(lfut) # {} /\ Running(dfut) # {})
  /\ (\E i \in 1..Len(lfut) : lfut[i].st \in {"pending", "running", "sleeping"}) =>
       dfut = <<>>

\* C17 witness: download workers are active after two listing workers
DownloadAfterListingCase ==
  /\ Len(lfut) = 2
  /\ Running(dfut) # {}

\* C18: the URLs handed to the download pool have pairwise distinct file
\* names, so no two download workers write the same ".partial" file or
\* rename to the same final name.
WorkersTargetDistinctNames ==
  /\ Len(dfut) > 0 => Len(dfut) = Len(gr)
  /\ \A i, j \in 1..Len(gr) :
       i # j => /\ FileName(gr[i]) # FileName(gr[j])
                /\ WriteTarget(FileName(gr[i])) # WriteTarget(FileName(gr[j]))

\* C18 witness: two download workers are running, and the listing held a
\* name under two dates and a name matched by two tiles
RepeatedNamesCase ==
  /\ Cardinality(Running(dfut)) = 2
  /\ \E i, j \in 1..Len(url_list) :
       /\ FileName(url_list[i]) = FileName(url_list[j])
       /\ url_list[i] # url_list[j]
  /\ \E i, j \in 1..Len(url_list) : i # j /\ url_list[i] = url_list[j]

\* C19: get_available_dates returns, in the order of the page, the URL of
\* each directory line after the 19th whose date lies in the window, both
\* ends included, and nothing else.
ScanReturnsWindowRows ==
  pc = "scanned" =>
    LET body == [i \in 1..(Len(idx) - 19) |-> idx[i + 19]]
        InRange(line) == /\ line.dir
                         /\ window.start_date <= line.date
                         /\ line.date <= window.end_date
        kept == SelectSeq(body, InRange)
    IN the_dates = [i \in 1..Len(kept) |-> <<BASE_URL, kept[i].date>>]

\* C19 witness: the 19th line is a directory of the window, and after it
\* come the window's last day, a day outside the window and its first day
ScanWindowCase ==
  /\ pc = "scanned"
  /\ Len(idx) = 22
  /\ window.start_date < window.end_date
  /\ idx[19] = DirRow(window.start_date)
  /\ idx[20] = DirRow(window.end_date)
  /\ idx[21].dir /\ idx[21].date > window.end_date
  /\ idx[22] = DirRow(window.start_date)
  /\ Len(the_dates) = 2

\* C20: the verifying step is reached only when every transfer of the pass
\* has succeeded, and then every requested name is among the gotten ones;
\* the run never ends as Incomplete, and a run that ends in an exception
\* after a pass began ends in the exception of a failed download worker.
VerifyingNeverIncomplete ==
  /\ err # "Incomplete"
  /\ (pc = "fetching" /\ Len(dload_files) = Len(dfut)) =>
       /\ \A i \in 1..Len(dfut) : dfut[i].st = "done"
       /\ HaveAllFiles(dload_files, req_fnames)
  /\ (pc \in {"ddrain", "raised"} /\ npass >= 1) =>
       \E i \in 1..Len(dfut) : dfut[i].st = "error" /\ dfut[i].exc = err

\* C20 witness: every result of a pass is collected, the check of the
\* gotten names is next, and the pass has written a file
VerifyingCase ==
  /\ pc = "fetching"
  /\ Len(dfut) > 0
  /\ Len(dload_files) = Len(dfut)
  /\ \E f \in DOMAIN dir : dir[f].run = run

====
